---- MODULE Spec2Model ----
(***************************************************************************)
(* Model of weneda's placeholder engine (src/weneda/placeholders.py):      *)
(* Formatter.format, a single-pass scanner over a mutable buffer with an   *)
(* open-position stack, an escape flag and a per-call cache, and           *)
(* Formatter.process, the first-match dispatch over the registered         *)
(* placeholders.                                                           *)
(*                                                                         *)
(* Text is a sequence of one-character strings.  `index`, `open_index`     *)
(* and the stack entries are Python's 0-based offsets.                     *)
(***************************************************************************)
EXTENDS Integers, Sequences, FiniteSets, TLC

VARIABLES
    opener,        \* self.opener
    closer,        \* self.closer
    escape,        \* self.escape
    placeholders,  \* self.placeholders, in registration order
    text,          \* the argument of format
    current,       \* the working buffer
    prev_escape,   \* the escape flag
    stack,         \* 0-based positions of the open openers, most recent last
    cache,         \* raw body -> replacement, for this call
    index,         \* the cursor
    open_index,    \* local of the closer branch: the popped opener position
    ph,            \* local of the closer branch: the raw body
    pc,            \* "scan", "await" (inside self.process), "done", "raised";
                   \* "rejected" when Formatter.__init__ raised ValueError
    calls,         \* history: the (name, depth) of every self.process call
    spliced,       \* history: every replacement spliced into the buffer
    origin,        \* history: for each character of the buffer, "in" (from
                   \* the input), "lit" (a token handled as escaped) or
                   \* "out" (put there by a splice)
    loop           \* the event loop: the other format call of the same
                   \* formatter, when there is one

vars == <<opener, closer, escape, placeholders, text, current, prev_escape,
          stack, cache, index, open_index, ph, pc, calls, spliced, origin,
          loop>>

config == <<opener, closer, escape, placeholders, text>>

(***************************************************************************)
(* Bounds                                                                  *)
(***************************************************************************)
MaxLen == 5

\* longest text of the second of two concurrent format calls
MaxPairLen == 3

(***************************************************************************)
(* Python values and strings                                               *)
(***************************************************************************)
\* None where a `str | None` is expected: a sequence that is no Python string
None == <<"None">>

\* the truth value of a `str | None`
Truthy(s) == s # None /\ s # <<>>

Min(a, b) == IF a < b THEN a ELSE b

Max(a, b) == IF a > b THEN a ELSE b

\* Python's normalisation of a slice bound k for a sequence of length n
SliceBound(k, n) == IF k < 0 THEN Max(n + k, 0) ELSE Min(k, n)

\* s[i:j]
PySlice(s, i, j) ==
    LET a == SliceBound(i, Len(s))
        b == SliceBound(j, Len(s))
    IN  IF a >= b THEN <<>> ELSE SubSeq(s, a + 1, b)

\* s[i:]
PySliceFrom(s, i) == PySlice(s, i, Len(s))

\* values a placeholder function can return
StrValue(s) == [kind |-> "str", s |-> s, n |-> 0]

IntValue(n) == [kind |-> "int", s |-> <<>>, n |-> n]

NoneValue == [kind |-> "none", s |-> <<>>, n |-> 0]

Digit(d) == CASE d = 0 -> "0" [] d = 1 -> "1" [] d = 2 -> "2" [] d = 3 -> "3"
              [] d = 4 -> "4" [] d = 5 -> "5" [] d = 6 -> "6" [] d = 7 -> "7"
              [] d = 8 -> "8" [] d = 9 -> "9"

RECURSIVE Digits(_)
Digits(n) == IF n < 10 THEN <<Digit(n)>>
             ELSE Digits(n \div 10) \o <<Digit(n % 10)>>

\* str(value): a string is itself, an int its decimal digits
Str(v) == IF v.kind = "str" THEN v.s ELSE Digits(v.n)

(***************************************************************************)
(* Placeholder records and Formatter.process                               *)
(***************************************************************************)
\* Placeholder.pattern: None when no regex was given, else a compiled regex;
\* the regexes modelled are literal strings
NoPattern == [none |-> TRUE, lit |-> <<>>]

Pattern(lit) == [none |-> FALSE, lit |-> lit]

\* what calling ph.func(name, depth) does
Const(v) == [kind |-> "const", v |-> v]

ReturnsDepth == [kind |-> "depth", v |-> NoneValue]

ReturnsNone == [kind |-> "const", v |-> NoneValue]

Raises == [kind |-> "raise", v |-> NoneValue]

\* a Placeholder object that has no attribute `func`
NoFunc == [kind |-> "nofunc", v |-> NoneValue]

\* a Placeholder built by Formatter.__init__ from a decorated method that
\* returns v: the method is bound to `process`, and there is no `func`
Declared(v) == [kind |-> "nofunc", v |-> v]

Placeholder(pattern, func) == [pattern |-> pattern, func |-> func]

\* ph.pattern.match(name): a literal regex matches at the start of name
PatternMatch(lit, name) == PySlice(name, 0, Len(lit)) = lit

Eligible(p, name) == p.pattern.none \/ PatternMatch(p.pattern.lit, name)

\* position of the first eligible placeholder, 0 when there is none
FirstMatch(phs, name) ==
    IF \E k \in 1..Len(phs) : Eligible(phs[k], name)
    THEN CHOOSE k \in 1..Len(phs) :
            /\ Eligible(phs[k], name)
            /\ \A j \in 1..(k - 1) : ~Eligible(phs[j], name)
    ELSE 0

\* outcome of ph.func(name, depth)
CallFunc(func, name, depth) ==
    CASE func.kind = "const" -> [raised |-> FALSE, value |-> func.v]
      [] func.kind = "depth" -> [raised |-> FALSE, value |-> IntValue(depth)]
      [] func.kind = "raise" -> [raised |-> TRUE, value |-> NoneValue]
      [] func.kind = "nofunc" -> [raised |-> TRUE, value |-> NoneValue]

\* outcome of the placeholder's own operation: `func` where there is one, else
\* Placeholder.process, which is the decorated method or returns None
Resolve(func, name, depth) ==
    IF func.kind = "nofunc"
    THEN [raised |-> FALSE, value |-> func.v]
    ELSE CallFunc(func, name, depth)

\* outcome of self.process(name, depth)
Process(phs, name, depth) ==
    LET k == FirstMatch(phs, name)
    IN  IF k = 0 THEN [raised |-> FALSE, value |-> NoneValue]
        ELSE CallFunc(phs[k].func, name, depth)

(***************************************************************************)
(* The pieces of Formatter.format                                          *)
(***************************************************************************)
opener_len == Len(opener)

closer_len == Len(closer)

escape_len == IF Truthy(escape) THEN Len(escape) ELSE 0

same == opener = closer

EscapeAt(cur, i) == Truthy(escape) /\ PySlice(cur, i, i + escape_len) = escape

OpenerAt(cur, i) == PySlice(cur, i, i + opener_len) = opener

CloserAt(cur, i) == PySlice(cur, i, i + closer_len) = closer

\* mutant: the opener branch without the same-token guard
OpenerBranchUnguarded(cur, i, stk) == OpenerAt(cur, i)

\* the condition of the opener branch
OpenerBranch(cur, i, stk) == OpenerAt(cur, i) /\ ~(same /\ stk # <<>>)

\* mutant: one character is deleted, whatever the length of the escape
DeleteEscapeOneChar(cur, i) == PySlice(cur, 0, i - 1) \o PySliceFrom(cur, i)

\* current[: index - escape_len] + current[index:]
DeleteEscape(cur, i) == PySlice(cur, 0, i - escape_len) \o PySliceFrom(cur, i)

\* mutant: every escape string is dropped from the buffer
CollapseEscapeDrop(cur, i, pe) ==
    PySlice(cur, 0, i) \o PySliceFrom(cur, i + escape_len)

\* the buffer after the escape branch: a second escape in a row drops the first
CollapseEscape(cur, i, pe) == IF pe THEN DeleteEscape(cur, i) ELSE cur

\* mutant: the pop is not guarded
StackOpenUnchecked(stk) == TRUE

\* `if stack:` before stack.pop()
StackOpen(stk) == stk # <<>>

\* mutant: the body is cut out of the original text, not the buffer
BodyOfText(cur, oi, i) == PySlice(text, oi + opener_len, i)

\* current[open_index + opener_len : index]
Body(cur, oi, i) == PySlice(cur, oi + opener_len, i)

\* mutant: `if not replacement` in place of `if replacement is None`
CacheMissFalsy(c, body) ==
    IF body \notin DOMAIN c THEN TRUE ELSE c[body] = <<>>

\* `replacement is None` after cache.get(ph)
CacheMiss(c, body) == body \notin DOMAIN c

\* mutant: `if value` in place of `if value is not None`
ReplacementTruthy(value, body) ==
    IF value.kind = "none" \/ value = StrValue(<<>>) \/ value = IntValue(0)
    THEN opener \o body \o closer
    ELSE Str(value)

\* mutant: an unresolved placeholder is replaced by its bare body
ReplacementBare(value, body) ==
    IF value.kind # "none" THEN Str(value) ELSE body

\* str(value) if value is not None else opener + ph + closer
Replacement(value, body) ==
    IF value.kind # "none" THEN Str(value) ELSE opener \o body \o closer

\* current[:open_index] + replacement + current[index + closer_len:]
Splice(cur, oi, replacement, i) ==
    PySlice(cur, 0, oi) \o replacement \o PySliceFrom(cur, i + closer_len)

\* mutant: the cursor goes back to the opener, the replacement is scanned
AfterSpliceRescan(oi, replacement) == oi

\* index = open_index + len(replacement)
AfterSplice(oi, replacement) == oi + Len(replacement)

\* mutant: the depth is taken before the pop
DepthBeforePop(stk) == Len(stk) + 1

\* the depth argument of self.process, evaluated after the pop
Depth(stk) == Len(stk)

Last(s) == s[Len(s)]

Front(s) == SubSeq(s, 1, Len(s) - 1)

\* mutant: stack.pop(0), the oldest opener is taken
PopOldest(stk) == [pos |-> Head(stk), rest |-> Tail(stk)]

\* stack.pop(): the most recent opener is taken
Pop(stk) == [pos |-> Last(stk), rest |-> Front(stk)]

\* the origin of a spliced replacement of length n
Out(n) == [k \in 1..n |-> "out"]

\* the characters at the 0-based positions a..b-1 become literal
Literal(org, a, b) ==
    [k \in 1..Len(org) |-> IF a < k /\ k <= b THEN "lit" ELSE org[k]]

(***************************************************************************)
(* Inputs                                                                  *)
(***************************************************************************)
Config(o, c, e) == [opener |-> o, closer |-> c, escape |-> e]

DefaultConfig == Config(<<"{">>, <<"}">>, <<"\\">>)

SameConfig == Config(<<"|">>, <<"|">>, <<"\\">>)

LongCloserConfig == Config(<<"{">>, <<"}", "}">>, <<"\\">>)

LongEscapeConfig == Config(<<"{">>, <<"}">>, <<"\\", "\\">>)

NoEscapeConfig == Config(<<"{">>, <<"}">>, None)

Configs == {DefaultConfig, SameConfig, LongCloserConfig, LongEscapeConfig,
            NoEscapeConfig}

\* arguments Formatter.__init__ has to refuse
InvalidArgs == {
    Config(<<>>, <<"}">>, <<"\\">>),
    Config(<<"{">>, <<>>, <<"\\">>),
    Config(<<>>, <<>>, None),
    Config(<<"{">>, <<"}">>, <<>>),
    Config(<<"{">>, <<"}">>, <<"{">>),
    Config(<<"{">>, <<"}">>, <<"}">>),
    Config(<<"|">>, <<"|">>, <<"|">>) }

ConstructorArgs == Configs \cup InvalidArgs

\* mutant: escape is not compared with opener and closer
RejectsUnlessEmpty(o, c, e) ==
    \/ o = <<>>
    \/ c = <<>>
    \/ (e = <<>> /\ e # None)

\* the four checks of Formatter.__init__: TRUE when it raises ValueError
Rejects(o, c, e) ==
    \/ o = <<>>
    \/ c = <<>>
    \/ (e = <<>> /\ e # None)
    \/ e \in {o, c}

Range(s) == {s[k] : k \in 1..Len(s)}

Alphabet(cfg) ==
    Range(cfg.opener) \cup Range(cfg.closer)
        \cup (IF cfg.escape = None THEN {} ELSE Range(cfg.escape)) \cup {"a"}

SeqsUpTo(S, n) == UNION {[1..k -> S] : k \in 0..n}

\* "{a:{b:{c}}}"
DepthExample ==
    <<"{", "a", ":", "{", "b", ":", "{", "c", "}", "}", "}">>

\* "{a:{b}}"
NestedExample == <<"{", "a", ":", "{", "b", "}", "}">>

\* "{a}{a}"
RepeatExample == <<"{", "a", "}", "{", "a", "}">>

\* "{\\{\\}}": an escaped escape before an inner opener and closer
EscapedPairExample ==
    <<"{", "\\", "\\", "{", "\\", "\\", "}", "}">>

Examples(cfg) ==
    IF cfg = DefaultConfig
    THEN {DepthExample, NestedExample, RepeatExample, EscapedPairExample}
    ELSE {}

Texts(cfg) == SeqsUpTo(Alphabet(cfg), MaxLen) \cup Examples(cfg)

Registries == {
    <<>>,
    <<Placeholder(NoPattern, Const(StrValue(<<"b">>)))>>,
    <<Placeholder(NoPattern, Const(StrValue(<<>>)))>>,
    <<Placeholder(NoPattern, ReturnsDepth)>>,
    <<Placeholder(Pattern(<<"a">>), ReturnsNone),
      Placeholder(NoPattern, Const(StrValue(<<"{", "a", "}">>)))>>,
    <<Placeholder(Pattern(<<"a">>), Raises),
      Placeholder(NoPattern, NoFunc)>>,
    <<Placeholder(NoPattern, Declared(StrValue(<<"b">>)))>> }

(***************************************************************************)
(* The state machine                                                       *)
(***************************************************************************)
\* the locals of format when it starts on t
NewFrame(t) ==
    [text |-> t, current |-> t, prev_escape |-> FALSE, stack |-> <<>>,
     cache |-> <<>>, index |-> 0, open_index |-> 0, ph |-> <<>>,
     pc |-> "scan", calls |-> <<>>, spliced |-> <<>>,
     origin |-> [k \in 1..Len(t) |-> "in"]]

\* the locals of the running format call
Frame ==
    [text |-> text, current |-> current, prev_escape |-> prev_escape,
     stack |-> stack, cache |-> cache, index |-> index,
     open_index |-> open_index, ph |-> ph, pc |-> pc, calls |-> calls,
     spliced |-> spliced, origin |-> origin]

\* the running call has the locals f
Runs(f) ==
    /\ text = f.text
    /\ current = f.current
    /\ prev_escape = f.prev_escape
    /\ stack = f.stack
    /\ cache = f.cache
    /\ index = f.index
    /\ open_index = f.open_index
    /\ ph = f.ph
    /\ pc = f.pc
    /\ calls = f.calls
    /\ spliced = f.spliced
    /\ origin = f.origin

\* one format call and nothing else on the event loop
NoLoop == [mode |-> "single", me |-> 1, waiting |-> NewFrame(<<>>),
           solo |-> <<>>]

\* Formatter(opener, closer, escape=escape), then format(t) when the
\* constructor did not raise
Init ==
    \E cfg \in ConstructorArgs :
        /\ opener = cfg.opener
        /\ closer = cfg.closer
        /\ escape = cfg.escape
        /\ loop = NoLoop
        /\ IF Rejects(cfg.opener, cfg.closer, cfg.escape)
           THEN /\ placeholders = <<>>
                /\ Runs([NewFrame(<<>>) EXCEPT !.pc = "rejected"])
           ELSE \E reg \in Registries :
                \E t \in Texts(cfg) :
                    /\ placeholders = reg
                    /\ Runs(NewFrame(t))

Scanning == pc = "scan" /\ index < Len(current)

InEscape == EscapeAt(current, index)

InOpener == ~InEscape /\ OpenerBranch(current, index, stack)

InCloser == ~InEscape /\ ~OpenerBranch(current, index, stack)
                /\ CloserAt(current, index)

\* an escape string at the cursor
ScanEscape ==
    /\ Scanning
    /\ InEscape
    /\ current' = CollapseEscape(current, index, prev_escape)
    /\ origin' = IF prev_escape
                 THEN Literal(CollapseEscape(origin, index, prev_escape),
                              index - escape_len, index)
                 ELSE origin
    /\ prev_escape' = ~prev_escape
    /\ index' = index + escape_len
    /\ UNCHANGED <<config, stack, cache, open_index, ph, pc, calls, spliced,
                   loop>>

\* an opener at the cursor
ScanOpener ==
    /\ Scanning
    /\ InOpener
    /\ IF ~prev_escape
       THEN /\ stack' = Append(stack, index)
            /\ UNCHANGED <<prev_escape, current, origin>>
       ELSE /\ prev_escape' = FALSE
            /\ current' = DeleteEscape(current, index)
            /\ origin' = Literal(DeleteEscape(origin, index),
                                 index - escape_len,
                                 index - escape_len + opener_len)
            /\ UNCHANGED stack
    /\ index' = index + opener_len
    /\ UNCHANGED <<config, cache, open_index, ph, pc, calls, spliced, loop>>

\* a closer after an escape string
CloserEscaped ==
    /\ Scanning
    /\ InCloser
    /\ prev_escape
    /\ prev_escape' = FALSE
    /\ current' = PySlice(current, 0, index - Len(escape))
                    \o PySliceFrom(current, index)
    /\ origin' = Literal(PySlice(origin, 0, index - Len(escape))
                             \o PySliceFrom(origin, index),
                         index - Len(escape),
                         index - Len(escape) + closer_len)
    /\ UNCHANGED <<config, stack, cache, index, open_index, ph, pc, calls,
                   spliced, loop>>

\* a closer with nothing open
CloserLiteral ==
    /\ Scanning
    /\ InCloser
    /\ ~prev_escape
    /\ ~StackOpen(stack)
    /\ index' = index + closer_len
    /\ UNCHANGED <<config, current, prev_escape, stack, cache, open_index, ph,
                   pc, calls, spliced, origin, loop>>

\* a closer whose body is in the cache
CloserCached ==
    /\ Scanning
    /\ InCloser
    /\ ~prev_escape
    /\ StackOpen(stack)
    /\ stack # <<>>
    /\ LET oi == Pop(stack).pos
           body == Body(current, oi, index)
       IN  /\ ~CacheMiss(cache, body)
           /\ stack' = Pop(stack).rest
           /\ open_index' = oi
           /\ ph' = body
           /\ current' = Splice(current, oi, cache[body], index)
           /\ origin' = Splice(origin, oi, Out(Len(cache[body])), index)
           /\ index' = AfterSplice(oi, cache[body])
           /\ spliced' = Append(spliced,
                  [ph |-> body, hit |-> TRUE, value |-> NoneValue,
                   replacement |-> cache[body]])
    /\ UNCHANGED <<config, prev_escape, cache, pc, calls, loop>>

\* a closer whose body is not in the cache: self.process is called
\* (stack.pop() of an empty list raises IndexError)
CloserProcess ==
    /\ Scanning
    /\ InCloser
    /\ ~prev_escape
    /\ StackOpen(stack)
    /\ IF stack = <<>>
       THEN /\ pc' = "raised"
            /\ UNCHANGED <<stack, open_index, ph, calls>>
       ELSE LET oi == Pop(stack).pos
                body == Body(current, oi, index)
            IN  /\ CacheMiss(cache, body)
                /\ stack' = Pop(stack).rest
                /\ open_index' = oi
                /\ ph' = body
                /\ calls' = Append(calls,
                       [name |-> body, depth |-> Depth(Pop(stack).rest)])
                /\ pc' = "await"
    /\ UNCHANGED <<config, current, prev_escape, cache, index, spliced,
                   origin, loop>>

\* self.process returns: the replacement is cached and spliced in
ProcessReturn ==
    /\ pc = "await"
    /\ LET r == Process(placeholders, Last(calls).name, Last(calls).depth)
           replacement == Replacement(r.value, ph)
       IN  /\ ~r.raised
           /\ cache' = [b \in DOMAIN cache \cup {ph} |->
                            IF b = ph THEN replacement ELSE cache[b]]
           /\ current' = Splice(current, open_index, replacement, index)
           /\ origin' = Splice(origin, open_index, Out(Len(replacement)),
                               index)
           /\ index' = AfterSplice(open_index, replacement)
           /\ spliced' = Append(spliced,
                  [ph |-> ph, hit |-> FALSE, value |-> r.value,
                   replacement |-> replacement])
    /\ pc' = "scan"
    /\ UNCHANGED <<config, prev_escape, stack, open_index, ph, calls, loop>>

\* self.process raises: format propagates the exception
ProcessRaise ==
    /\ pc = "await"
    /\ Process(placeholders, Last(calls).name, Last(calls).depth).raised
    /\ pc' = "raised"
    /\ UNCHANGED <<config, current, prev_escape, stack, cache, index,
                   open_index, ph, calls, spliced, origin, loop>>

\* any other character
ScanOther ==
    /\ Scanning
    /\ ~InEscape
    /\ ~OpenerBranch(current, index, stack)
    /\ ~CloserAt(current, index)
    /\ index' = index + 1
    /\ UNCHANGED <<config, current, prev_escape, stack, cache, open_index, ph,
                   pc, calls, spliced, origin, loop>>

\* the loop condition fails: return current
Return ==
    /\ pc = "scan"
    /\ index >= Len(current)
    /\ pc' = "done"
    /\ UNCHANGED <<config, current, prev_escape, stack, cache, index,
                   open_index, ph, calls, spliced, origin, loop>>

Next ==
    \/ ScanEscape
    \/ ScanOpener
    \/ CloserEscaped
    \/ CloserLiteral
    \/ CloserCached
    \/ CloserProcess
    \/ ProcessReturn
    \/ ProcessRaise
    \/ ScanOther
    \/ Return

Spec == Init /\ [][Next]_vars

\* every step of format that can be taken is eventually taken: the event
\* loop resumes the coroutine, and the resolvers of Registries all return
\* or raise
FairSpec == Spec /\ WF_vars(Next)

(***************************************************************************)
(* Two format calls of one formatter on one event loop.  The variables     *)
(* hold the locals of the call that is running; loop.waiting holds the     *)
(* locals of the other one, which is suspended in `await self.process`,    *)
(* has not started, or has finished.  Each text is first formatted alone   *)
(* (mode "solo"), the outcomes are kept in loop.solo, then both calls are  *)
(* started together (mode "both").                                         *)
(***************************************************************************)
\* "{}{a}", "{}{}", "{{}}"
PairFirstTexts == { <<"{", "}", "{", "a", "}">>,
                    <<"{", "}", "{", "}">>,
                    <<"{", "{", "}", "}">> }

PairSecondTexts == SeqsUpTo(Alphabet(DefaultConfig), MaxPairLen)

\* what the caller of format gets: the returned text, or the exception
Outcome(f) ==
    [pc |-> f.pc, result |-> IF f.pc = "done" THEN f.current ELSE <<>>]

\* mutant: the cache is kept on the formatter and shared by its calls
ResumedCacheShared(f, c) == c

\* the cache a resumed call finds: its own local, whatever cache c the call
\* that ran meanwhile has built
ResumedCache(f, c) == f.cache

\* the locals f, with cache c, become those of the running call
Load(f, c) ==
    /\ text' = f.text
    /\ current' = f.current
    /\ prev_escape' = f.prev_escape
    /\ stack' = f.stack
    /\ cache' = c
    /\ index' = f.index
    /\ open_index' = f.open_index
    /\ ph' = f.ph
    /\ pc' = f.pc
    /\ calls' = f.calls
    /\ spliced' = f.spliced
    /\ origin' = f.origin
    /\ UNCHANGED <<opener, closer, escape, placeholders>>

\* a call is started: its locals are the ones format creates
Start(t) == Load(NewFrame(t), NewFrame(t).cache)

\* the event loop runs the call whose locals are f
Resume(f) == Load(f, ResumedCache(f, cache))

InitTwo ==
    \E reg \in Registries :
    \E t1 \in PairFirstTexts :
    \E t2 \in PairSecondTexts :
        /\ opener = DefaultConfig.opener
        /\ closer = DefaultConfig.closer
        /\ escape = DefaultConfig.escape
        /\ placeholders = reg
        /\ Runs(NewFrame(t1))
        /\ loop = [mode |-> "solo", me |-> 1, waiting |-> NewFrame(t2),
                   solo |-> <<>>]

\* a call that ran alone has ended: the other text is formatted alone, and
\* after it both calls are started afresh
SoloDone ==
    /\ loop.mode = "solo"
    /\ pc \in {"done", "raised"}
    /\ Start(loop.waiting.text)
    /\ loop' = [mode |-> IF loop.me = 1 THEN "solo" ELSE "both",
                me |-> 3 - loop.me,
                waiting |-> NewFrame(text),
                solo |-> Append(loop.solo, Outcome(Frame))]

\* the running call is suspended in `await self.process`, or has ended, and
\* the event loop runs the other call
Switch ==
    /\ loop.mode = "both"
    /\ pc \in {"await", "done", "raised"}
    /\ loop.waiting.pc \in {"scan", "await"}
    /\ Resume(loop.waiting)
    /\ loop' = [loop EXCEPT !.me = 3 - loop.me, !.waiting = Frame]

NextTwo ==
    \/ ScanEscape
    \/ ScanOpener
    \/ CloserEscaped
    \/ CloserLiteral
    \/ CloserCached
    \/ CloserProcess
    \/ ProcessReturn
    \/ ProcessRaise
    \/ ScanOther
    \/ Return
    \/ SoloDone
    \/ Switch

SpecTwo == InitTwo /\ [][NextTwo]_vars

(***************************************************************************)
(* Shapes of the input text                                                *)
(***************************************************************************)
TextPositions == 0..(Len(text) - 1)

OpenerPositions == {i \in TextPositions : OpenerAt(text, i)}

CloserPositions == {i \in TextPositions : CloserAt(text, i)}

EscapePositions == {i \in TextPositions : EscapeAt(text, i)}

DelimiterPositions == OpenerPositions \cup CloserPositions

\* no opener, closer or escape string starts anywhere in s
TokenFree(s) ==
    \A i \in 0..(Len(s) - 1) :
        ~OpenerAt(s, i) /\ ~CloserAt(s, i) /\ ~EscapeAt(s, i)

\* the k-th smallest element of a set of integers
RECURSIVE Nth(_, _)
Nth(S, k) ==
    LET m == CHOOSE x \in S : \A y \in S : x <= y
    IN  IF k = 1 THEN m ELSE Nth(S \ {m}, k - 1)

\* plain text, one opener + body + closer, plain text; nothing else is a token
OnePlaceholderText ==
    /\ EscapePositions = {}
    /\ Cardinality(DelimiterPositions) = 2
    /\ OpenerAt(text, Nth(DelimiterPositions, 1))
    /\ CloserAt(text, Nth(DelimiterPositions, 2))
    /\ Nth(DelimiterPositions, 1) + opener_len <= Nth(DelimiterPositions, 2)

OnePre == PySlice(text, 0, Nth(DelimiterPositions, 1))

OneBody == PySlice(text, Nth(DelimiterPositions, 1) + opener_len,
                   Nth(DelimiterPositions, 2))

OnePost == PySliceFrom(text, Nth(DelimiterPositions, 2) + closer_len)

\* opener a opener b closer c closer, with a, b, c plain, between plain text
NestedText ==
    /\ ~same
    /\ EscapePositions = {}
    /\ Cardinality(DelimiterPositions) = 4
    /\ OpenerAt(text, Nth(DelimiterPositions, 1))
    /\ OpenerAt(text, Nth(DelimiterPositions, 2))
    /\ CloserAt(text, Nth(DelimiterPositions, 3))
    /\ CloserAt(text, Nth(DelimiterPositions, 4))
    /\ Nth(DelimiterPositions, 1) + opener_len <= Nth(DelimiterPositions, 2)
    /\ Nth(DelimiterPositions, 2) + opener_len <= Nth(DelimiterPositions, 3)
    /\ Nth(DelimiterPositions, 3) + closer_len <= Nth(DelimiterPositions, 4)

NestedA == PySlice(text, Nth(DelimiterPositions, 1) + opener_len,
                   Nth(DelimiterPositions, 2))

NestedB == PySlice(text, Nth(DelimiterPositions, 2) + opener_len,
                   Nth(DelimiterPositions, 3))

NestedC == PySlice(text, Nth(DelimiterPositions, 3) + closer_len,
                   Nth(DelimiterPositions, 4))

\* escape escape opener name closer, name plain
EscapedEscapeText ==
    /\ escape # None
    /\ Len(text) >= 2 * escape_len + opener_len + closer_len
    /\ text = escape \o escape \o opener
                \o PySlice(text, 2 * escape_len + opener_len,
                           Len(text) - closer_len)
                \o closer
    /\ TokenFree(PySlice(text, 2 * escape_len + opener_len,
                         Len(text) - closer_len))

EscapedEscapeName ==
    PySlice(text, 2 * escape_len + opener_len, Len(text) - closer_len)

\* escape opener body closer, body plain
EscapedOpenerText ==
    /\ escape # None
    /\ Len(text) >= escape_len + opener_len + closer_len
    /\ text = escape \o opener
                \o PySlice(text, escape_len + opener_len,
                           Len(text) - closer_len)
                \o closer
    /\ TokenFree(PySlice(text, escape_len + opener_len,
                         Len(text) - closer_len))

EscapedOpenerBody ==
    PySlice(text, escape_len + opener_len, Len(text) - closer_len)

\* token x token y token with one token for opener and closer, x and y plain
ThreeTokenText ==
    /\ same
    /\ EscapePositions = {}
    /\ Cardinality(DelimiterPositions) = 3
    /\ Nth(DelimiterPositions, 1) + opener_len <= Nth(DelimiterPositions, 2)
    /\ Nth(DelimiterPositions, 2) + closer_len <= Nth(DelimiterPositions, 3)

\* the number of cache misses among the splices
Misses == Cardinality({j \in 1..Len(spliced) : ~spliced[j].hit})

\* what dispatch has to yield: the outcome of the first placeholder, in
\* registration order, that has no pattern or whose pattern matches
RECURSIVE ExpectedDispatch(_, _, _)
ExpectedDispatch(phs, name, depth) ==
    IF phs = <<>>
    THEN [raised |-> FALSE, value |-> NoneValue]
    ELSE IF Head(phs).pattern.none
            \/ SubSeq(name, 1, Min(Len(name), Len(Head(phs).pattern.lit)))
                   = Head(phs).pattern.lit
         THEN Resolve(Head(phs).func, name, depth)
         ELSE ExpectedDispatch(Tail(phs), name, depth)

\* the self.process call that produced the j-th splice, a cache miss
MissCall(j) == calls[Cardinality({i \in 1..j : ~spliced[i].hit})]

(***************************************************************************)
(* Claims                                                                  *)
(***************************************************************************)

\* C1: when the text is plain text, one placeholder with a plain body and
\* plain text, and the dispatch of that body returns a value v that is not
\* None (the empty string included), format returns the text before the
\* span, then str(v), then the text after the span; the body is dispatched
\* once, at depth 0, and nothing else is spliced.
C1_ReplacesExactlyTheSpan ==
    (pc = "done" /\ OnePlaceholderText) =>
        /\ calls = <<[name |-> OneBody, depth |-> 0]>>
        /\ Len(spliced) = 1
        /\ spliced[1].value.kind # "none" =>
               current = OnePre \o Str(spliced[1].value) \o OnePost

C1_Witness ==
    /\ pc = "done"
    /\ OnePlaceholderText
    /\ OnePre # <<>>
    /\ OnePost # <<>>
    /\ Len(spliced) = 1
    /\ spliced[1].value = StrValue(<<>>)
    /\ current = OnePre \o OnePost

\* C2: when self.process yields None for a body (no placeholder matched, or
\* the first that matched returned None), the splice leaves the buffer as it
\* was, opener + body + closer standing where it stood, and the cursor moves
\* past the closer; a text with one placeholder that does not resolve, and
\* any escape-free text formatted with no placeholders registered, is
\* returned unchanged.
C2_UnresolvedStaysVerbatim ==
    /\ [][(pc = "await" /\ pc' = "scan"
              /\ Last(spliced').value.kind = "none") =>
            /\ current' = current
            /\ index' = index + closer_len
            /\ PySlice(current', open_index, index')
                   = opener \o ph \o closer]_vars
    /\ []((pc = "done" /\ OnePlaceholderText /\ Len(spliced) = 1
              /\ spliced[1].value.kind = "none") => current = text)
    /\ []((pc = "done" /\ placeholders = <<>> /\ EscapePositions = {})
              => current = text)

C2_Witness ==
    /\ pc = "done"
    /\ OnePlaceholderText
    /\ placeholders = <<>>
    /\ Len(spliced) = 1
    /\ spliced[1].value.kind = "none"
    /\ OneBody # <<>>
    /\ current = text

\* C3: in a text opener a opener b closer c closer (a, b, c plain, opener and
\* closer different) whose inner body b resolves to a value v, the raw body
\* of the outer placeholder is a + str(v) + c: it is what self.process
\* receives, at depth 0, unless that body equals b and is served from the
\* cache.
C3_OuterSeesResolvedInner ==
    (NestedText /\ Len(spliced) >= 1 /\ spliced[1].value.kind # "none") =>
        LET outer == NestedA \o Str(spliced[1].value) \o NestedC
        IN  /\ spliced[1].ph = NestedB
            /\ calls[1] = [name |-> NestedB, depth |-> 1]
            /\ Len(calls) >= 2 =>
                   calls[2] = [name |-> outer, depth |-> 0]
            /\ Len(spliced) >= 2 => spliced[2].ph = outer
            /\ pc = "done" =>
                   /\ Len(spliced) = 2
                   /\ spliced[2].hit <=> (outer = NestedB)
                   /\ Len(calls) = (IF outer = NestedB THEN 1 ELSE 2)

C3_Witness ==
    /\ pc = "done"
    /\ text = NestedExample
    /\ calls = << [name |-> <<"b">>, depth |-> 1],
                  [name |-> <<"a", ":", "{", "a", "}">>, depth |-> 0] >>

\* C4: escape escape opener name closer (name plain) formats to one escape
\* string followed by the replacement of the placeholder, which is dispatched.
\* The code does not do this: after collapsing the pair the cursor has moved
\* one escape length past the surviving escape, over the opener.
C4_EscapedEscapeThenPlaceholder ==
    (pc = "done" /\ EscapedEscapeText) =>
        /\ Len(spliced) = 1
        /\ spliced[1].ph = EscapedEscapeName
        /\ current = escape \o spliced[1].replacement

C7_DispatchOncePerBody ==
    /\ \A i, j \in 1..Len(calls) :
           i # j => calls[i].name # calls[j].name
    /\ \A j \in 1..Len(spliced) :
           IF spliced[j].hit
           THEN \E i \in 1..(j - 1) :
                    /\ ~spliced[i].hit
                    /\ spliced[i].ph = spliced[j].ph
                    /\ spliced[i].replacement = spliced[j].replacement
           ELSE \A i \in 1..(j - 1) : spliced[i].ph # spliced[j].ph
    /\ Len(calls) = Misses + (IF pc \in {"await", "raised"} THEN 1 ELSE 0)
    /\ {spliced[j].ph : j \in 1..Len(spliced)}
           \subseteq {calls[i].name : i \in 1..Len(calls)}

C7_Witness ==
    /\ pc = "done"
    /\ Len(spliced) = 2
    /\ Len(calls) = 1
    /\ calls[1].depth = 1
    /\ spliced[2].hit
    /\ spliced[2].replacement = <<>>
    /\ stack = <<>>

\* C8: the depth self.process receives is the length of the stack after the
\* placeholder's own opener was popped; for "{a:{b:{c}}}" the calls have the
\* depths 2, 1, 0 in this order, the first for the body c.
C8_DepthIsStackAfterPop ==
    /\ [][Len(calls') > Len(calls) =>
            /\ stack # <<>>
            /\ stack' = Front(stack)
            /\ Last(calls').depth = Len(stack')]_vars
    /\ [](text = DepthExample =>
            /\ \A k \in 1..Len(calls) : calls[k].depth = 3 - k
            /\ Len(calls) >= 1 => calls[1].name = <<"c">>
            /\ pc = "done" => Len(calls) = 3)

C8_Witness ==
    /\ pc = "done"
    /\ text = DepthExample
    /\ placeholders = <<Placeholder(NoPattern, ReturnsDepth)>>
    /\ calls = << [name |-> <<"c">>, depth |-> 2],
                  [name |-> <<"b", ":", "2">>, depth |-> 1],
                  [name |-> <<"a", ":", "1">>, depth |-> 0] >>
    /\ current = <<"0">>

\* C9: when opener and closer are the same string, the stack never holds
\* more than one position and every dispatch has depth 0; a token met
\* unescaped while a placeholder is open closes it; in token x token y token
\* the second token closes x and the third is left as an open opener.
C9_SameTokenNeverNests ==
    /\ [](same =>
            /\ Len(stack) <= 1
            /\ \A k \in 1..Len(calls) : calls[k].depth = 0)
    /\ [][(same /\ Scanning /\ stack # <<>> /\ ~InEscape /\ ~prev_escape
              /\ OpenerAt(current, index)) => stack' = <<>>]_vars
    /\ [](ThreeTokenText =>
            /\ Len(calls) <= 1
            /\ Len(calls) = 1 =>
                   calls[1].name =
                       PySlice(text, Nth(DelimiterPositions, 1) + opener_len,
                               Nth(DelimiterPositions, 2))
            /\ pc = "done" =>
                   /\ Len(spliced) = 1
                   /\ Len(stack) = 1
                   /\ current =
                          PySlice(text, 0, Nth(DelimiterPositions, 1))
                              \o spliced[1].replacement
                              \o PySliceFrom(text,
                                     Nth(DelimiterPositions, 2) + closer_len))

C9_Witness ==
    /\ pc = "done"
    /\ ThreeTokenText
    /\ Len(text) = 5
    /\ Len(spliced) = 1
    /\ spliced[1].value = StrValue(<<"b">>)
    /\ current = <<"b", "a", "|">>

\* C10: format raises only out of a self.process call; a text without escape
\* strings and without closers, or without openers, is returned unchanged
\* with nothing dispatched, every unclosed opener still on the stack; when
\* the cursor is at the end of the buffer the return is taken whatever the
\* stack holds.
C10_UnbalancedIsLiteral ==
    /\ pc = "raised" => calls # <<>>
    /\ (EscapePositions = {} /\ CloserPositions = {}) =>
           /\ pc # "raised"
           /\ calls = <<>>
           /\ current = text
           /\ pc = "done" => Len(stack) = Cardinality(OpenerPositions)
    /\ (EscapePositions = {} /\ OpenerPositions = {}) =>
           /\ pc # "raised"
           /\ calls = <<>>
           /\ current = text
           /\ stack = <<>>
    /\ (pc = "scan" /\ index >= Len(current)) => ENABLED Return

C10_Witness ==
    /\ pc = "done"
    /\ EscapePositions = {}
    /\ CloserPositions = {}
    /\ Len(stack) = 2
    /\ current = text

\* C11: self.process yields the outcome of the first placeholder, in
\* registration order, that has no pattern or whose pattern matches the body,
\* also when that outcome is None, and None when there is no such
\* placeholder.  The code does not do this for a placeholder that has no
\* attribute `func`: it raises AttributeError in place of the outcome of the
\* placeholder's `process`.
C11_FirstMatchingResolverDecides ==
    /\ pc = "raised" =>
           ExpectedDispatch(placeholders, Last(calls).name,
                            Last(calls).depth).raised
    /\ \A j \in 1..Len(spliced) :
           ~spliced[j].hit =>
               ExpectedDispatch(placeholders, MissCall(j).name,
                                MissCall(j).depth)
                   = [raised |-> FALSE, value |-> spliced[j].value]

\* C12: Formatter.__init__ raises, and nothing is formatted, exactly when
\* opener or closer is empty, escape is an empty string, or escape equals
\* opener or closer; a constructed formatter has a non-empty opener and
\* closer and an escape that is None or non-empty and different from both.
C12_ConstructionValidates ==
    /\ pc # "rejected" =>
           /\ opener # <<>>
           /\ closer # <<>>
           /\ escape = None
                  \/ (escape # <<>> /\ escape # opener /\ escape # closer)
    /\ pc = "rejected" <=>
           \/ opener = <<>>
           \/ closer = <<>>
           \/ escape = <<>>
           \/ escape = opener
           \/ escape = closer
    /\ pc = "rejected" =>
           /\ current = text
           /\ index = 0
           /\ calls = <<>>
           /\ spliced = <<>>
           /\ ~ENABLED Next

C12_Witness ==
    /\ pc = "rejected"
    /\ opener = <<"{">>
    /\ closer = <<"}">>
    /\ escape = <<"}">>

\* C13: a self.process call begins only while the call is scanning and every
\* earlier call has been answered, so at most one is outstanding; the call is
\* made for the closer at the cursor and for the most recent open opener,
\* which lies right of every opener that stays open, so an enclosed
\* placeholder is dispatched before the placeholders enclosing it.
C13_SequentialInnermostFirst ==
    /\ []((Len(calls) - Misses) \in {0, 1})
    /\ []((Len(calls) - Misses = 1) <=> pc \in {"await", "raised"})
    /\ [][calls' # calls =>
            /\ pc = "scan"
            /\ pc' = "await"
            /\ Len(calls) = Misses
            /\ calls' = Append(calls, Last(calls'))
            /\ CloserAt(current, index)
            /\ stack # <<>>
            /\ open_index' = Last(stack)
            /\ stack' = Front(stack)
            /\ \A k \in 1..Len(stack') : stack'[k] < open_index'
            /\ open_index' + opener_len <= index
            /\ Last(calls').name
                   = PySlice(current, open_index' + opener_len, index)]_vars
    /\ [](NestedText => (Len(calls) >= 1 => calls[1].name = NestedB))
    /\ []((text = DepthExample /\ Len(calls) = 3) =>
            /\ calls[1].name = <<"c">>
            /\ PySlice(calls[2].name, 0, 2) = <<"b", ":">>
            /\ PySlice(calls[3].name, 0, 2) = <<"a", ":">>)

C13_Witness ==
    /\ pc = "done"
    /\ text = DepthExample
    /\ calls = << [name |-> <<"c">>, depth |-> 2],
                  [name |-> <<"b", ":", "b">>, depth |-> 1],
                  [name |-> <<"a", ":", "b">>, depth |-> 0] >>
    /\ Misses = 3
    /\ current = <<"b">>

\* C14: when two format calls of one formatter interleave at their awaits,
\* a step of the running call leaves the locals of the suspended call as
\* they are, a switch hands each call exactly the locals it had, no step
\* changes the delimiters or the registered placeholders, and each call
\* ends with the outcome it has when it runs alone.
C14_InterleavedCallsDoNotInterfere ==
    /\ [][UNCHANGED <<opener, closer, escape, placeholders>>]_vars
    /\ [][(loop.mode = "both" /\ loop'.me = loop.me) =>
            loop'.waiting = loop.waiting]_vars
    /\ [][(loop.mode = "both" /\ loop'.me # loop.me) =>
            /\ Frame' = loop.waiting
            /\ loop'.waiting = Frame]_vars
    /\ []((loop.mode = "both" /\ pc \in {"done", "raised"}) =>
            Outcome(Frame) = loop.solo[loop.me])
    /\ []((loop.mode = "both" /\ loop.waiting.pc \in {"done", "raised"}) =>
            Outcome(loop.waiting) = loop.solo[3 - loop.me])

C14_Witness ==
    /\ loop.mode = "both"
    /\ loop.me = 1
    /\ pc = "done"
    /\ text = <<"{", "}", "{", "a", "}">>
    /\ Len(calls) = 2
    /\ loop.waiting.pc = "done"
    /\ loop.waiting.text = <<"{", "{", "}">>
    /\ loop.waiting.spliced # <<>>
    /\ loop.waiting.spliced[1].hit = FALSE
    /\ loop.waiting.current = <<"{", "1">>
    /\ current = <<"0", "0">>

\* the characters of the buffer that came out of a resolver, in order
OutText(cur, org) ==
    LET F[k \in 0..Len(cur)] ==
            IF k = 0 THEN <<>>
            ELSE IF org[k] = "out" THEN Append(F[k - 1], cur[k])
            ELSE F[k - 1]
    IN  F[Len(cur)]

\* C15: a splice leaves the cursor at open_index + len(replacement); the
\* cursor and the stack never point into text a resolver produced, and a
\* step that is not a splice neither deletes nor changes such text, so
\* delimiters in a replacement stay as they are until an enclosing
\* placeholder is replaced.
C15_ReplacementIsNotRescanned ==
    /\ [](Len(origin) = Len(current))
    /\ [](\A k \in 1..Len(origin) : k > index => origin[k] # "out")
    /\ [](\A k \in 1..Len(stack) : origin[stack[k] + 1] # "out")
    /\ [][spliced' # spliced =>
            /\ index' = open_index' + Len(Last(spliced').replacement)
            /\ PySlice(current', open_index', index')
                   = Last(spliced').replacement
            /\ PySlice(origin', open_index', index') = Out(index' - open_index')
            /\ OutText(PySlice(current', 0, open_index'),
                       PySlice(origin', 0, open_index'))
                   = OutText(PySlice(current, 0, open_index'),
                             PySlice(origin, 0, open_index'))]_vars
    /\ [][spliced' = spliced =>
            OutText(current', origin') = OutText(current, origin)]_vars

C15_Witness ==
    /\ pc = "done"
    /\ text = <<"{", "}", "}">>
    /\ Len(spliced) = 1
    /\ spliced[1].replacement = <<"{", "a", "}">>
    /\ current = <<"{", "a", "}", "}">>
    /\ PySlice(origin, 0, 3) = Out(3)
    /\ Len(calls) = 1

\* the token that ends at the cursor is an escape string
EscapeBeforeCursor ==
    /\ index >= escape_len
    /\ EscapeAt(current, index - escape_len)

\* C16: whenever the scan is about to look at the cursor and prev_escape
\* is set, the token that ends at the cursor is an escape string; and a
\* step over an ordinary character leaves prev_escape cleared.
C16_PendingEscapeIsThePrecedingToken ==
    /\ []((Scanning /\ prev_escape) => EscapeBeforeCursor)
    /\ [][(Scanning /\ ~InEscape /\ ~InOpener /\ ~CloserAt(current, index))
            => ~prev_escape']_vars

\* C17: a step that is not a splice and changes the buffer removes exactly
\* the escape string that ends at the cursor, and nothing else.
C17_OnlyEscapesAreDeleted ==
    [][(spliced' = spliced /\ current' # current) =>
        /\ EscapeBeforeCursor
        /\ current' = PySlice(current, 0, index - escape_len)
                         \o PySliceFrom(current, index)]_vars

\* C18: when a closer follows a pending escape string, the escape string is
\* deleted, prev_escape is cleared and the cursor is left on the first
\* character after the closer, whatever the lengths of the two tokens.
C18_CursorAfterEscapedCloser ==
    [][(Scanning /\ InCloser /\ prev_escape /\ EscapeBeforeCursor) =>
        /\ current' = PySlice(current, 0, index - escape_len)
                         \o PySliceFrom(current, index)
        /\ ~prev_escape'
        /\ CloserAt(current', index - escape_len)
        /\ index' = index - escape_len + closer_len]_vars

\* the positions lo..hi-1 of the buffer hold an opener and, after it, a
\* closer, both made of characters of the input text that the scan has
\* neither resolved nor made literal
HasInputPair(cur, org, lo, hi) ==
    \E i \in lo..(hi - 1) : \E j \in lo..(hi - 1) :
        /\ i + opener_len <= j
        /\ j + closer_len <= hi
        /\ OpenerAt(cur, i)
        /\ CloserAt(cur, j)
        /\ \A k \in (i + 1)..(i + opener_len) : org[k] = "in"
        /\ \A k \in (j + 1)..(j + closer_len) : org[k] = "in"

\* C19: the body handed to self.process never holds an opener of the input
\* text followed by a closer of the input text.
C19_BodyHasNoUnresolvedPair ==
    [](pc = "await" =>
          ~HasInputPair(current, origin, open_index + opener_len, index))

\* the part of the buffer at and after the cursor
Unscanned == Len(current) - index

\* C20: every pass of the scan loop leaves less unscanned buffer than it
\* found (the call of self.process in the middle of a pass changes
\* nothing), and format ends: it returns, or an exception leaves it.
C20_FormatTerminates ==
    /\ [][pc' = "scan" => Unscanned' < Unscanned]_vars
    /\ [][pc' = "await" => Unscanned' = Unscanned]_vars
    /\ <>(pc \in {"done", "raised", "rejected"})

C20_Witness ==
    /\ pc = "done"
    /\ text = <<"{", "}", "{", "}">>
    /\ current = <<"{", "a", "}", "{", "a", "}">>
    /\ Len(calls) = 1
    /\ Len(spliced) = 2

====
